---- MODULE Spec2Model ----
(***************************************************************************)
(* A model of the opengl-sandbox libraries: the Arcball rotation engine,   *)
(* the orbital CameraArcball derived from it, the free-fly Camera, the      *)
(* Logger, and the pointer callbacks of the cube_camera_arcball program.   *)
(*                                                                         *)
(* Numbers.  The sources compute in float.  The model computes the same    *)
(* expressions exactly, in fixed point, on inputs for which every square   *)
(* root it takes is exact:                                                 *)
(*   - pointer coordinates (NDC) and the arcball radius are integers in    *)
(*     units of 1/3, so the default radius 1.0f is 3;                      *)
(*   - a unit vector of the CameraArcball (front, right, up) is an integer *)
(*     vector of length 5, and its position is in units of 1/15, so that   *)
(*     position + front * velocity is exact for a velocity in units of 1/3;*)
(*   - a unit quaternion q is the primitive integer 4-vector that points   *)
(*     along it (q = v / |v|, gcd of v's components 1).  The product of    *)
(*     two unit quaternions is the primitive vector of the Hamilton        *)
(*     product.  The all-NaN quaternion that float arithmetic yields for   *)
(*     0/0 is the vector <<0,0,0,0>>, which no unit quaternion has and     *)
(*     which every product with it yields again.                           *)
(***************************************************************************)
EXTENDS Integers, Sequences, FiniteSets, TLC

VARIABLES
    cls,              \* which class was constructed: "Arcball", "CameraArcball", "Camera"
    \* Arcball
    radius, start, end, lastRotation, currentRotation, invertY, rotating,
    \* CameraArcball and Camera (the fields the two classes name alike are shared)
    position, front, right, up, target, worldUp, fieldOfView, translating,
    \* Camera
    initialPosition, pitch, yaw,
    \* history of the calls made so far
    steps,            \* number of calls made
    lastOp,           \* the last call: <<name, argument>>
    dragStart,        \* the argument of the last beginRotation, <<>> before any
    dragMoves,        \* rotate calls since the last beginRotation (0, 1, 2 = two or more)
    rotHist,          \* the last of beginRotation / endRotation: "begin", "end", "none"
    transHist,        \* the last of beginTranslation / endTranslation
    constructed,      \* Camera: position, pitch, yaw, fieldOfView right after construction
    beforeEnd,        \* <<currentRotation, lastRotation>> before the call, when the
                      \* last call is endRotation; <<>> otherwise
    \* screenToNDC, a static function: its arguments and its result
    ndcArgs, ndcResult,
    \* Logger
    logType,          \* Logger::type
    outs,             \* <<outs[0] is set, outs[1] is set>>
    console,          \* the characters written to std::cout
    file,             \* the characters written to the log file
    now,              \* what std::time and localtime_s yield, a std::tm
    alive,            \* the process has not been terminated
    logs,             \* number of log calls made
    lastLog,          \* the last log call: <<message, showTimestamp, end>>
    logBefore,        \* <<console, file>> before the last log call
    \* Logger::trimString, a static function: its argument and its result
    trimText, trimCalled, trimResult,
    \* the program cube_camera_arcball: its globals, and the window system
    program,          \* "none", or "cube_camera_arcball" when the program runs
    windowWidth, windowHeight, firstMouse, lastY,
    cursor,           \* what glfwGetCursorPos returns, in pixels
    held,             \* the mouse buttons that are down
    events,           \* number of events delivered to the callbacks
    lastEvent,        \* the last event: <<name, arguments>>
    prevMoveY,        \* NDC y of the last pointer-move event, <<>> before any
    dollied           \* camera.translate has been called since the right button
                      \* went down

arcVars == <<radius, start, end, lastRotation, currentRotation, invertY, rotating>>
camVars == <<position, front, right, up, target, worldUp, fieldOfView, translating>>
flyVars == <<initialPosition, pitch, yaw>>
histVars == <<steps, lastOp, dragStart, dragMoves, rotHist, transHist, constructed,
              beforeEnd>>
ndcVars == <<ndcArgs, ndcResult>>
logVars == <<logType, outs, console, file, now, alive, logs, lastLog, logBefore,
             trimText, trimCalled, trimResult>>
demoVars == <<program, windowWidth, windowHeight, firstMouse, lastY, cursor, held,
              events, lastEvent, prevMoveY, dollied>>
vars == <<cls, arcVars, camVars, flyVars, histVars, ndcVars, logVars, demoVars>>

\* Bound on the number of calls made on the object.
MaxSteps == 4

\* Bound on the number of events delivered to the program's callbacks.
MaxEvents == 6

(***************************************************************************)
(* Arithmetic                                                              *)
(***************************************************************************)
Abs(x) == IF x < 0 THEN -x ELSE x

Min(a, b) == IF a < b THEN a ELSE b

RECURSIVE Gcd(_, _)
Gcd(a, b) == IF b = 0 THEN Abs(a) ELSE Gcd(b, a % Abs(b))

RECURSIVE SqrtSearch(_, _, _)
SqrtSearch(n, lo, hi) ==
    IF lo >= hi THEN lo
    ELSE LET mid == (lo + hi + 1) \div 2
         IN  IF mid * mid <= n THEN SqrtSearch(n, mid, hi)
             ELSE SqrtSearch(n, lo, mid - 1)

\* sqrt: the integer square root (exact on the perfect squares the inputs give)
Sqrt(n) == SqrtSearch(n, 0, Min(n, 46340))

IsSquare(n) == n >= 0 /\ Sqrt(n) * Sqrt(n) = n

\* glm::dot, glm::cross, glm::length on vec3
Dot3(a, b) == a[1] * b[1] + a[2] * b[2] + a[3] * b[3]

Cross3(a, b) == << a[2] * b[3] - a[3] * b[2],
                   a[3] * b[1] - a[1] * b[3],
                   a[1] * b[2] - a[2] * b[1] >>

Length3(a) == Sqrt(Dot3(a, a))

Add3(a, b) == << a[1] + b[1], a[2] + b[2], a[3] + b[3] >>

Sub3(a, b) == << a[1] - b[1], a[2] - b[2], a[3] - b[3] >>

Scale3(a, k) == << a[1] * k, a[2] * k, a[3] * k >>

ZERO3 == <<0, 0, 0>>

(***************************************************************************)
(* Quaternions <<w, x, y, z>>                                              *)
(***************************************************************************)
IDENTITY_QUATERNION == <<1, 0, 0, 0>>

\* the all-NaN quaternion
NAN_QUATERNION == <<0, 0, 0, 0>>

\* the unit quaternion along v: v over the gcd of its components
Primitive(v) ==
    LET g == Gcd(Gcd(v[1], v[2]), Gcd(v[3], v[4]))
    IN  IF g = 0 THEN NAN_QUATERNION
        ELSE << v[1] \div g, v[2] \div g, v[3] \div g, v[4] \div g >>

\* glm::quat operator*: the Hamilton product p * q
QuatMul(p, q) ==
    Primitive(<< p[1] * q[1] - p[2] * q[2] - p[3] * q[3] - p[4] * q[4],
                 p[1] * q[2] + p[2] * q[1] + p[3] * q[4] - p[4] * q[3],
                 p[1] * q[3] + p[3] * q[1] + p[4] * q[2] - p[2] * q[4],
                 p[1] * q[4] + p[4] * q[1] + p[2] * q[3] - p[3] * q[2] >>)

\* glm::mat4_cast of the unit quaternion along q: the 3x3 rotation block, row by
\* row, as nine numerators over the common denominator n = |q|^2, in lowest terms.
\* (1 - 2(yy + zz) on the unit quaternion is (n - 2(yy + zz)) / n on q.)
Mat4Cast(q) ==
    LET w == q[1]  x == q[2]  y == q[3]  z == q[4]
        n == w * w + x * x + y * y + z * z
        m == << n - 2 * (y * y + z * z), 2 * (x * y - w * z), 2 * (x * z + w * y),
                2 * (x * y + w * z), n - 2 * (x * x + z * z), 2 * (y * z - w * x),
                2 * (x * z - w * y), 2 * (y * z + w * x), n - 2 * (x * x + y * y) >>
        g == Gcd(n, Gcd(Gcd(Gcd(m[1], m[2]), Gcd(m[3], m[4])),
                        Gcd(Gcd(m[5], m[6]), Gcd(Gcd(m[7], m[8]), m[9]))))
    IN  IF n = 0 THEN << <<0, 0, 0, 0, 0, 0, 0, 0, 0>>, 0 >>
        ELSE << [i \in 1..9 |-> m[i] \div g], n \div g >>

(***************************************************************************)
(* Arcball (arcball.cpp)                                                   *)
(***************************************************************************)
\* 1.0f, in units of 1/3
DEFAULT_RADIUS == 1 * 3

\* Radii an Arcball is constructed with: 1.0 and 5/3.
Radii == {DEFAULT_RADIUS, 5}

\* Pointer positions passed to beginRotation and rotate, in units of 1/3: the
\* centre, two points inside the ball, two opposite points on its rim and one
\* outside it (for radius 3).
Positions == { <<0, 0>>, <<1, 2>>, <<2, -2>>, <<3, 0>>, <<-3, 0>>, <<4, 0>> }

\* The positions whose mapped point and whose length are exact for radius r.
PositionTable ==
    [ r \in Radii |->
        { p \in Positions :
            LET d == p[1] * p[1] + p[2] * p[2]
            IN  IF d <= r * r THEN IsSquare(r * r - d) ELSE IsSquare(d) } ]

PositionsFor(r) == IF r \in Radii THEN PositionTable[r] ELSE {}

\* if (!invertY) pos.y *= -1.0f;
OrientY(pos, inv) == IF ~inv THEN << pos[1], -pos[2] >> ELSE pos

\* Arcball::mapToSurface(glm::vec2 pos)
mapToSurface(pos, r) ==
    LET rSquared == r * r
        xSquared == pos[1] * pos[1]
        ySquared == pos[2] * pos[2]
    IN  << pos[1], pos[2],
           IF xSquared + ySquared <= rSquared
           THEN Sqrt(rSquared - xSquared - ySquared)
           ELSE 0 >>

\* The rotation that takes mapToSurface(s) to mapToSurface(e).  With
\* c = startDotEnd / (startMagnitude * endMagnitude) the cosine of the angle and
\* n the unit axis, glm::angleAxis is (cos(angle/2), sin(angle/2) * n), which
\* points along (1 + c, sin(angle) * n) = (m + d, cross) / m, for d the dot
\* product (capped at m by std::min(., 1.0f)), m the product of the magnitudes
\* and cross the cross product, whose length is m * sin(angle).  glm::normalize
\* of a zero cross product is 0 * inf = NaN in every component, and the
\* quaternion built on it is NaN in every component after its own normalize.
computeRotationQuaternion(s, e, r) ==
    LET startPos == mapToSurface(s, r)
        endPos == mapToSurface(e, r)
        startDotEnd == Dot3(startPos, endPos)
        startMagnitude == Length3(startPos)
        endMagnitude == Length3(endPos)
        m == startMagnitude * endMagnitude
        d == Min(startDotEnd, m)
        cross == Cross3(startPos, endPos)
    IN  IF cross = ZERO3 \/ m = 0 THEN NAN_QUATERNION
        ELSE Primitive(<< m + d, cross[1], cross[2], cross[3] >>)

\* Arcball::getRotationMatrix, on the fields given
RotationMatrixOf(current, last) == Mat4Cast(QuatMul(current, last))

getRotationMatrix == RotationMatrixOf(currentRotation, lastRotation)

\* Arcball::isRotating
isRotating == rotating

IsArcball == cls \in {"Arcball", "CameraArcball"}

\* The calls an object may receive: each event of the program makes at most one.
StepLimit == IF program = "none" THEN MaxSteps ELSE MaxEvents

\* What a call records in the history.
Called(name, arg) ==
    /\ steps < StepLimit
    /\ steps' = steps + 1
    /\ lastOp' = <<name, arg>>
    /\ beforeEnd' = IF name = "endRotation" THEN <<currentRotation, lastRotation>>
                    ELSE <<>>
    /\ UNCHANGED constructed

\* Arcball::Arcball(radius, invertY)
ArcballFields(r, inv) ==
    /\ lastRotation = IDENTITY_QUATERNION
    /\ currentRotation = IDENTITY_QUATERNION
    /\ start = <<0, 0>>
    /\ end = <<0, 0>>
    /\ radius = r
    /\ invertY = inv
    /\ rotating = FALSE

NoHistory ==
    /\ steps = 0
    /\ lastOp = <<"construct", <<>> >>
    /\ dragStart = <<>>
    /\ dragMoves = 0
    /\ rotHist = "none"
    /\ transHist = "none"
    /\ beforeEnd = <<>>

\* The fields a class does not have hold these values throughout.
NoCamera ==
    /\ position = ZERO3 /\ front = ZERO3 /\ right = ZERO3 /\ up = ZERO3
    /\ target = ZERO3 /\ worldUp = ZERO3 /\ fieldOfView = 0 /\ translating = FALSE

NoArcball ==
    /\ radius = 0 /\ start = <<0, 0>> /\ end = <<0, 0>> /\ invertY = FALSE
    /\ lastRotation = NAN_QUATERNION /\ currentRotation = NAN_QUATERNION
    /\ rotating = FALSE

NoFly == initialPosition = ZERO3 /\ pitch = 0 /\ yaw = 0

NoNDC == ndcArgs = <<>> /\ ndcResult = <<>>

\* No program runs: the calls are made on the object directly.
NoDemo ==
    /\ program = "none" /\ windowWidth = 0 /\ windowHeight = 0
    /\ firstMouse = FALSE /\ lastY = 0 /\ cursor = <<0, 0>> /\ held = {}
    /\ events = 0 /\ lastEvent = <<"none", <<>> >> /\ prevMoveY = <<>>
    /\ dollied = FALSE

Direct == UNCHANGED demoVars

NoLogger ==
    /\ logType = "none" /\ outs = <<FALSE, FALSE>> /\ console = <<>> /\ file = <<>>
    /\ now = <<>> /\ alive = TRUE /\ logs = 0 /\ lastLog = <<>> /\ logBefore = <<>>
    /\ trimText = <<>> /\ trimCalled = FALSE /\ trimResult = <<>>

InitArcball ==
    /\ cls = "Arcball"
    /\ \E r \in Radii, inv \in BOOLEAN : ArcballFields(r, inv)
    /\ NoCamera /\ NoFly /\ NoNDC /\ NoLogger /\ NoHistory
    /\ constructed = <<>>

\* Arcball::beginRotation(glm::vec2 pos)
beginRotation(pos) ==
    /\ IsArcball
    /\ Called("beginRotation", pos)
    /\ start' = OrientY(pos, invertY)
    /\ rotating' = TRUE
    /\ dragStart' = pos
    /\ dragMoves' = 0
    /\ rotHist' = "begin"
    /\ UNCHANGED <<cls, radius, end, lastRotation, currentRotation, invertY,
                   camVars, flyVars, transHist, ndcVars, logVars>>

\* Arcball::rotate(glm::vec2 pos)
rotateAccumulating(pos) ==
    /\ IsArcball
    /\ Called("rotate", pos)
    /\ end' = OrientY(pos, invertY)
    /\ currentRotation' =
           QuatMul(computeRotationQuaternion(start, end', radius), currentRotation)
    /\ start' = end'
    /\ dragMoves' = Min(dragMoves + 1, 2)
    /\ UNCHANGED <<cls, radius, lastRotation, invertY, rotating,
                   camVars, flyVars, dragStart, rotHist, transHist, ndcVars, logVars>>

rotate(pos) ==
    /\ IsArcball
    /\ Called("rotate", pos)
    /\ end' = OrientY(pos, invertY)
    /\ currentRotation' = computeRotationQuaternion(start, end', radius)
    /\ dragMoves' = Min(dragMoves + 1, 2)
    /\ UNCHANGED <<cls, radius, start, lastRotation, invertY, rotating,
                   camVars, flyVars, dragStart, rotHist, transHist, ndcVars, logVars>>

\* Arcball::endRotation()
endRotationSwapped ==
    /\ IsArcball
    /\ Called("endRotation", <<>>)
    /\ lastRotation' = QuatMul(lastRotation, currentRotation)
    /\ currentRotation' = IDENTITY_QUATERNION
    /\ rotating' = FALSE
    /\ rotHist' = "end"
    /\ UNCHANGED <<cls, radius, start, end, invertY,
                   camVars, flyVars, dragStart, dragMoves, transHist, ndcVars, logVars>>

endRotationKeepsFlag ==
    /\ IsArcball
    /\ Called("endRotation", <<>>)
    /\ lastRotation' = QuatMul(currentRotation, lastRotation)
    /\ currentRotation' = IDENTITY_QUATERNION
    /\ rotHist' = "end"
    /\ UNCHANGED <<cls, radius, start, end, invertY, rotating,
                   camVars, flyVars, dragStart, dragMoves, transHist, ndcVars, logVars>>

endRotation ==
    /\ IsArcball
    /\ Called("endRotation", <<>>)
    /\ lastRotation' = QuatMul(currentRotation, lastRotation)
    /\ currentRotation' = IDENTITY_QUATERNION
    /\ rotating' = FALSE
    /\ rotHist' = "end"
    /\ UNCHANGED <<cls, radius, start, end, invertY,
                   camVars, flyVars, dragStart, dragMoves, transHist, ndcVars, logVars>>

(***************************************************************************)
(* CameraArcball (camera_arcball.h, camera_arcball.cpp)                    *)
(***************************************************************************)
MIN_FOV == 1

MAX_FOV == 45

TRANSLATION_SPEED == 7

\* glm::normalize on vec3, for unit vectors of length one: 0 * inf is NaN in
\* every component when v is the zero vector.
Normalize3(v, one) ==
    LET len == Length3(v)
    IN  IF len = 0 THEN <<"NaN", "NaN", "NaN">>
        ELSE << (v[1] * one) \div len, (v[2] * one) \div len, (v[3] * one) \div len >>

\* Constructor arguments (position, target, worldUp), positions in units of
\* 1/15: the defaults (Z_POSITIVE_AXIS, ORIGIN, Y_POSITIVE_AXIS), the demo's
\* camera at (0, 0, 7), and a camera at (9, 12, 0) in a world whose up is z.
CameraArcballArgs ==
    { << <<0, 0, 15>>, ZERO3, <<0, 1, 0>> >>,
      << <<0, 0, 105>>, ZERO3, <<0, 1, 0>> >>,
      << <<135, 180, 0>>, ZERO3, <<0, 0, 1>> >> }

\* Offsets passed to translate, in units of 1/3 (differences of NDC y).
TranslateOffsets == {-3, 0, 2}

\* Offsets passed to adjustFOV, in degrees.
FOVOffsets == {-50, -3, 0, 50}

\* CameraArcball::updateCameraVectors: <<front, right, up>>, each of length 5
updateCameraVectors(pos, tgt, wUp) ==
    LET f == Normalize3(Sub3(pos, tgt), 5)
        r == Normalize3(Cross3(f, wUp), 5)
        u == Normalize3(Cross3(r, f), 5)
    IN  <<f, r, u>>

\* CameraArcball::getFOV, Camera::getFOV
getFOV == fieldOfView

\* CameraArcball::isTranslating
isTranslating == translating

\* CameraArcball::CameraArcball(position, target, worldUp)
InitCameraArcball ==
    /\ cls = "CameraArcball"
    /\ ArcballFields(DEFAULT_RADIUS, FALSE)
    /\ \E a \in CameraArcballArgs :
          /\ position = a[1]
          /\ target = a[2]
          /\ worldUp = a[3]
          /\ \E v \in {updateCameraVectors(a[1], a[2], a[3])} :
                front = v[1] /\ right = v[2] /\ up = v[3]
    /\ fieldOfView = MAX_FOV
    /\ translating = FALSE
    /\ NoFly /\ NoNDC /\ NoLogger /\ NoHistory
    /\ constructed = <<>>

\* CameraArcball::beginTranslation()
beginTranslation ==
    /\ cls = "CameraArcball"
    /\ Called("beginTranslation", <<>>)
    /\ translating' = TRUE
    /\ transHist' = "begin"
    /\ UNCHANGED <<cls, arcVars, position, front, right, up, target, worldUp,
                   fieldOfView, flyVars, dragStart, dragMoves, rotHist, ndcVars, logVars>>

\* CameraArcball::translate(float offset)
translateTowards(offset) ==
    /\ cls = "CameraArcball"
    /\ Called("translate", offset)
    /\ LET velocity == offset * TRANSLATION_SPEED
       IN  position' = Add3(position, Scale3(front, velocity))
    /\ UNCHANGED <<cls, arcVars, front, right, up, target, worldUp, fieldOfView,
                   translating, flyVars, dragStart, dragMoves, rotHist, transHist,
                   ndcVars, logVars>>

translate(offset) ==
    /\ cls = "CameraArcball"
    /\ Called("translate", offset)
    /\ LET velocity == -offset * TRANSLATION_SPEED
       IN  position' = Add3(position, Scale3(front, velocity))
    /\ UNCHANGED <<cls, arcVars, front, right, up, target, worldUp, fieldOfView,
                   translating, flyVars, dragStart, dragMoves, rotHist, transHist,
                   ndcVars, logVars>>

\* CameraArcball::endTranslation()
endTranslationKeepsFlag ==
    /\ cls = "CameraArcball"
    /\ Called("endTranslation", <<>>)
    /\ transHist' = "end"
    /\ UNCHANGED <<cls, arcVars, camVars, flyVars, dragStart, dragMoves, rotHist,
                   ndcVars, logVars>>

endTranslation ==
    /\ cls = "CameraArcball"
    /\ Called("endTranslation", <<>>)
    /\ translating' = FALSE
    /\ transHist' = "end"
    /\ UNCHANGED <<cls, arcVars, position, front, right, up, target, worldUp,
                   fieldOfView, flyVars, dragStart, dragMoves, rotHist, ndcVars, logVars>>

\* fieldOfView -= offset, then the clamp to [MIN_FOV, MAX_FOV]
ClampedFOVNoFloor(fov, offset) ==
    LET f == fov - offset
    IN  IF f > MAX_FOV THEN MAX_FOV ELSE f

ClampedFOV(fov, offset) ==
    LET f == fov - offset
    IN  IF f < MIN_FOV THEN MIN_FOV
        ELSE IF f > MAX_FOV THEN MAX_FOV
        ELSE f

\* CameraArcball::adjustFOV(float offset), Camera::adjustFOV(float offset)
adjustFOV(offset) ==
    /\ cls \in {"CameraArcball", "Camera"}
    /\ Called("adjustFOV", offset)
    /\ fieldOfView' = ClampedFOV(fieldOfView, offset)
    /\ UNCHANGED <<cls, arcVars, position, front, right, up, target, worldUp,
                   translating, flyVars, dragStart, dragMoves, rotHist, transHist,
                   ndcVars, logVars>>

(***************************************************************************)
(* Camera (camera.h)                                                       *)
(*                                                                         *)
(* Angles are in hundredths of a degree.  Positions and unit vectors are   *)
(* in units of 1/10000, the resolution at which cos(89.99 deg) = 0.0001745 *)
(* is not 0.  The inputs keep pitch and yaw within 0.01 deg of a multiple  *)
(* of 90 deg, where cos and sin are tabulated below.                       *)
(***************************************************************************)
MIN_PITCH == -8999

MAX_PITCH == 8999

DEFAULT_PITCH == 0

DEFAULT_YAW == -9000

DEFAULT_FOV == 45

\* 5.0f world units per second
DEFAULT_MOVEMENT_SPEED == 5

\* 0.1f degrees per pixel: 10 hundredths of a degree
DEFAULT_LOOK_SENSITIVITY == 10

\* cos and sin of r hundredths of a degree, 0 <= r < 9000, times 10000, rounded
CosTable(r) == CASE r = 0 -> 10000 [] r = 1 -> 10000 [] r = 8999 -> 2

SinTable(r) == CASE r = 0 -> 0 [] r = 1 -> 2 [] r = 8999 -> 10000

\* cos(glm::radians(a)), sin(glm::radians(a)), by quadrant
Cos(a) ==
    LET q == (a \div 9000) % 4
        r == a % 9000
    IN  CASE q = 0 -> CosTable(r) [] q = 1 -> -SinTable(r)
          [] q = 2 -> -CosTable(r) [] q = 3 -> SinTable(r)

Sin(a) ==
    LET q == (a \div 9000) % 4
        r == a % 9000
    IN  CASE q = 0 -> SinTable(r) [] q = 1 -> CosTable(r)
          [] q = 2 -> -SinTable(r) [] q = 3 -> -CosTable(r)

\* a product of two numbers in units of 1/10000
FixMul(a, b) == (a * b) \div 10000

\* glm::cross of two vectors in units of 1/10000
FixCross3(a, b) ==
    LET c == Cross3(a, b)
    IN  << c[1] \div 10000, c[2] \div 10000, c[3] \div 10000 >>

\* Camera::updateCameraVectors: <<front, right, up>>
updateFlyVectors(p, y, wUp) ==
    LET reverseDirection == << FixMul(Cos(p), Cos(y)), Sin(p), FixMul(Cos(p), Sin(y)) >>
        f == Normalize3(reverseDirection, 10000)
        r == Normalize3(FixCross3(f, wUp), 10000)
        u == Normalize3(FixCross3(r, f), 10000)
    IN  <<f, r, u>>

\* Constructor arguments (position, worldUp, pitch, yaw): the demos' camera at
\* (0, 0, 3) with the default angles, a camera at (1, 0, 0) looking along +x,
\* and one looking almost straight down.
CameraArgs ==
    { << <<0, 0, 30000>>, <<0, 10000, 0>>, DEFAULT_PITCH, DEFAULT_YAW >>,
      << <<10000, 0, 0>>, <<0, 10000, 0>>, 0, 0 >>,
      << <<0, 0, 30000>>, <<0, 10000, 0>>, -8999, 9000 >> }

\* What the read of a member that is not yet initialised may yield, besides the
\* value the member is given next: zero (static storage) or anything else.
Indeterminate3 == { ZERO3, <<12345, -1, 777>> }

\* Camera::Movement
Movement == {"FORWARD", "BACKWARD", "LEFT", "RIGHT"}

\* deltaTime, in seconds
DeltaTimes == {1}

\* (offsetX, offsetY, constrainPitch) passed to look, offsets in pixels
LookInputs ==
    { <<0, 900, TRUE>>, <<900, -900, TRUE>>, <<-900, 1800, FALSE>>, <<0, -1800, FALSE>> }

\* The fields every Camera constructor sets the same way.
CameraFields(a) ==
    /\ position = a[1]
    /\ worldUp = a[2]
    /\ pitch = a[3]
    /\ yaw = a[4]
    /\ \E v \in {updateFlyVectors(a[3], a[4], a[2])} :
          front = v[1] /\ right = v[2] /\ up = v[3]
    /\ fieldOfView = DEFAULT_FOV
    /\ target = ZERO3 /\ translating = FALSE
    /\ NoArcball /\ NoNDC /\ NoLogger /\ NoHistory
    /\ constructed = << a[1], a[3], a[4], DEFAULT_FOV >>

\* Camera::Camera(glm::vec3 position, glm::vec3 worldUp, float pitch, float yaw):
\* initialPosition(position) reads the parameter.
InitCameraVec ==
    /\ cls = "Camera"
    /\ \E a \in CameraArgs : CameraFields(a) /\ initialPosition = a[1]

\* Camera::Camera(float posX, ..., float pitch, float yaw): initialPosition is
\* declared, and so initialised, before position, and initialPosition(position)
\* reads the member position before it has a value.
InitCameraFloats ==
    /\ cls = "Camera"
    /\ \E a \in CameraArgs :
          /\ CameraFields(a)
          /\ initialPosition \in Indeterminate3 \cup {a[1]}

\* Camera::move(Movement direction, float deltaTime)
move(direction, deltaTime) ==
    /\ cls = "Camera"
    /\ Called("move", <<direction, deltaTime>>)
    /\ LET velocity == DEFAULT_MOVEMENT_SPEED * deltaTime
       IN  position' =
             CASE direction = "FORWARD" -> Add3(position, Scale3(front, velocity))
               [] direction = "BACKWARD" -> Sub3(position, Scale3(front, velocity))
               [] direction = "LEFT" -> Sub3(position, Scale3(right, velocity))
               [] direction = "RIGHT" -> Add3(position, Scale3(right, velocity))
    /\ UNCHANGED <<cls, arcVars, front, right, up, target, worldUp, fieldOfView,
                   translating, flyVars, dragStart, dragMoves, rotHist, transHist,
                   ndcVars, logVars>>

\* the pitch after look: pitch += offsetY, then the clamp when constrainPitch
LookPitchNoFloor(p, offsetY, constrainPitch) ==
    LET q == p + offsetY * DEFAULT_LOOK_SENSITIVITY
    IN  IF constrainPitch /\ q > MAX_PITCH THEN MAX_PITCH ELSE q

LookPitch(p, offsetY, constrainPitch) ==
    LET q == p + offsetY * DEFAULT_LOOK_SENSITIVITY
    IN  IF constrainPitch
        THEN IF q > MAX_PITCH THEN MAX_PITCH
             ELSE IF q < MIN_PITCH THEN MIN_PITCH
             ELSE q
        ELSE q

\* Camera::look(float offsetX, float offsetY, bool constrainPitch)
look(offsetX, offsetY, constrainPitch) ==
    /\ cls = "Camera"
    /\ Called("look", <<offsetX, offsetY, constrainPitch>>)
    /\ yaw' = yaw + offsetX * DEFAULT_LOOK_SENSITIVITY
    /\ pitch' = LookPitch(pitch, offsetY, constrainPitch)
    /\ \E v \in {updateFlyVectors(pitch', yaw', worldUp)} :
          front' = v[1] /\ right' = v[2] /\ up' = v[3]
    /\ UNCHANGED <<cls, arcVars, position, target, worldUp, fieldOfView, translating,
                   initialPosition, dragStart, dragMoves, rotHist, transHist, ndcVars, logVars>>

\* Camera::reset()
reset ==
    /\ cls = "Camera"
    /\ Called("reset", <<>>)
    /\ position' = initialPosition
    /\ pitch' = DEFAULT_PITCH
    /\ yaw' = DEFAULT_YAW
    /\ fieldOfView' = DEFAULT_FOV
    /\ \E v \in {updateFlyVectors(pitch', yaw', worldUp)} :
          front' = v[1] /\ right' = v[2] /\ up' = v[3]
    /\ UNCHANGED <<cls, arcVars, target, worldUp, translating, initialPosition,
                   dragStart, dragMoves, rotHist, transHist, ndcVars, logVars>>

(***************************************************************************)
(* Arcball::screenToNDC, a static function.  Its results are rationals     *)
(* <<numerator, denominator>> in lowest terms, denominator positive.       *)
(***************************************************************************)
Rat(n, d) ==
    LET g == Gcd(n, d)
    IN  IF d < 0 THEN << (-n) \div g, (-d) \div g >> ELSE << n \div g, d \div g >>

RatSub(a, b) == Rat(a[1] * b[2] - b[1] * a[2], a[2] * b[2])

RatMul(a, b) == Rat(a[1] * b[1], a[2] * b[2])

RatLeq(a, b) == a[1] * b[2] <= b[1] * a[2]

\* 0.5f and 2.0f
HALF == Rat(1, 2)

TWO == Rat(2, 1)

\* Arcball::screenToNDC(glm::vec2 pos, int width, int height)
screenToNDCSwapped(pos, width, height) ==
    LET x == RatMul(RatSub(Rat(pos[1], height), HALF), TWO)
        y == RatMul(RatSub(Rat(pos[2], width), HALF), TWO)
    IN  <<x, y>>

screenToNDC(pos, width, height) ==
    LET x == RatMul(RatSub(Rat(pos[1], width), HALF), TWO)
        y == RatMul(RatSub(Rat(pos[2], height), HALF), TWO)
    IN  <<x, y>>

\* Window sizes, in pixels, and cursor positions, some outside the window.
Widths == {1, 2, 4, 5}

Heights == {1, 2, 3}

CursorXs == -1 .. 6

CursorYs == -1 .. 4

InitNDC ==
    /\ cls = "static"
    /\ NoArcball /\ NoCamera /\ NoFly /\ NoLogger /\ NoDemo /\ NoHistory
    /\ constructed = <<>>
    /\ ndcArgs \in (CursorXs \X CursorYs) \X Widths \X Heights
    /\ ndcResult = <<>>

\* a call of screenToNDC(pos, width, height)
CallScreenToNDC ==
    /\ cls = "static"
    /\ ndcResult = <<>>
    /\ ndcResult' = screenToNDC(ndcArgs[1], ndcArgs[2], ndcArgs[3])
    /\ UNCHANGED <<cls, arcVars, camVars, flyVars, histVars, ndcArgs, logVars, demoVars>>

NextNDC == CallScreenToNDC

SpecNDC == InitNDC /\ [][NextNDC]_vars

(***************************************************************************)
(* Logger (logger.cpp)                                                     *)
(*                                                                         *)
(* A std::string is the sequence of its character codes.  A std::size_t is *)
(* kept modulo SIZE_MODULUS; the code relies on nothing of the width but   *)
(* that 0 - 1 is the largest value and the largest value + 1 is 0.         *)
(***************************************************************************)
\* Logger::Output
Output == {"CONSOLE", "FILE", "CONSOLE_AND_FILE"}

\* Logger::requiresConsole, Logger::requiresFile
requiresConsole(type) == type = "CONSOLE" \/ type = "CONSOLE_AND_FILE"

requiresFile(type) == type = "FILE" \/ type = "CONSOLE_AND_FILE"

\* std::isspace in the "C" locale: ' ', '\t', '\n', '\v', '\f', '\r'
isspace(c) == c = 32 \/ (9 <= c /\ c <= 13)

SIZE_MODULUS == 2 ^ 30

\* what a read that the process does not survive yields
FAULT == 0 - 1

\* what trimString yields when the process is terminated inside it
ABORTED == << FAULT >>

\* The bytes that lie in memory before the characters of a string, the nearest
\* first, as far as they can be read: a byte that is no whitespace, a blank
\* and then such a byte, or nothing readable (the subscript is checked, or the
\* page is not mapped).
Befores == { << 0 >>, << 32, 0 >>, << >> }

\* text[pos]: the character for pos < size, '\0' for pos = size, and beyond
\* that whatever lies at the address, which for pos near the largest size_t is
\* SIZE_MODULUS - pos bytes before the characters.
CharAt(text, before, pos) ==
    IF pos < Len(text) THEN text[pos + 1]
    ELSE IF pos = Len(text) THEN 0
    ELSE IF SIZE_MODULUS - pos <= Len(before) THEN before[SIZE_MODULUS - pos]
    ELSE FAULT

\* while (std::isspace(text[--end])); the value of end when the loop is left
\* (endIndex and e stand for the code's end, which names an Arcball field here)
RECURSIVE TrimScan(_, _, _)
TrimScan(text, before, endIndex) ==
    LET e == (endIndex - 1) % SIZE_MODULUS
        c == CharAt(text, before, e)
    IN  IF c = FAULT THEN FAULT
        ELSE IF isspace(c) THEN TrimScan(text, before, e)
        ELSE e

\* std::string::substr(pos, count), for pos <= size
substr(text, pos, count) == SubSeq(text, pos + 1, pos + Min(count, Len(text) - pos))

\* Logger::trimString(const std::string& text)
trimString(text, before) ==
    LET endIndex == Len(text)
    IN  IF endIndex = 0 THEN << >>
        ELSE LET e == TrimScan(text, before, endIndex)
             IN  IF e = FAULT THEN ABORTED
                 ELSE substr(text, 0, (e + 1) % SIZE_MODULUS)

\* std::to_string of a natural number
RECURSIVE to_string(_)
to_string(n) ==
    IF n < 10 THEN << 48 + n >> ELSE to_string(n \div 10) \o << 48 + (n % 10) >>

\* Logger::timestampToString(const std::tm& timestamp)
timestampToString(timestamp) ==
    LET year == to_string(timestamp.tm_year + 1900)
        month == to_string(timestamp.tm_mon + 1)
        day == to_string(timestamp.tm_mday)
        hour == to_string(timestamp.tm_hour)
        minute == to_string(timestamp.tm_min)
        second == to_string(timestamp.tm_sec)
        month2 == IF timestamp.tm_mon < 9 THEN << 48 >> \o month ELSE month
        day2 == IF timestamp.tm_mday < 10 THEN << 48 >> \o day ELSE day
        hour2 == IF timestamp.tm_hour < 10 THEN << 48 >> \o hour ELSE hour
        minute2 == IF timestamp.tm_min < 10 THEN << 48 >> \o minute ELSE minute
        second2 == IF timestamp.tm_sec < 10 THEN << 48 >> \o second ELSE second
    IN  year \o month2 \o day2 \o << 45 >> \o hour2 \o minute2 \o second2

\* Logger::getTimestamp
getTimestamp == now

\* Local times the clock shows: 2023-10-05 09:03:07 and 2024-12-25 23:59:59.
Times ==
    { [tm_year |-> 123, tm_mon |-> 9, tm_mday |-> 5,
       tm_hour |-> 9, tm_min |-> 3, tm_sec |-> 7],
      [tm_year |-> 124, tm_mon |-> 11, tm_mday |-> 25,
       tm_hour |-> 23, tm_min |-> 59, tm_sec |-> 59] }

\* Messages passed to log: "", "a", "a ", " a", "a a \n", " " and " \t".
Messages ==
    { << >>, << 97 >>, << 97, 32 >>, << 32, 97 >>, << 97, 32, 97, 32, 10 >>,
      << 32 >>, << 32, 9 >> }

\* End characters passed to log: '\n' and ' '.
Ends == { 10, 32 }

\* Bound on the number of log calls.
MaxLogs == 2

\* Logger::Logger(const Output& type, const std::string& baseFilePath)
InitLogger ==
    /\ cls = "Logger"
    /\ logType \in Output
    /\ outs = << requiresConsole(logType), requiresFile(logType) >>
    /\ console = << >>
    /\ file = << >>
    /\ now \in Times
    /\ alive = TRUE
    /\ logs = 0
    /\ lastLog = << >>
    /\ logBefore = << >>
    /\ trimText = << >> /\ trimCalled = FALSE /\ trimResult = << >>
    /\ NoArcball /\ NoCamera /\ NoFly /\ NoNDC /\ NoDemo /\ NoHistory
    /\ constructed = << >>

\* the entry log writes, from the trimmed message
Entry(trimmedMessage, showTimestamp, endChar) ==
    LET entry == IF showTimestamp
                 THEN << 91 >> \o timestampToString(getTimestamp) \o << 93, 32 >>
                          \o trimmedMessage
                 ELSE trimmedMessage
    IN  entry \o << endChar >>

\* Logger::log(const std::string& message, bool showTimestamp, const char& end)
log(message, showTimestamp, endChar) ==
    /\ cls = "Logger"
    /\ alive
    /\ logs < MaxLogs
    /\ logs' = logs + 1
    /\ lastLog' = << message, showTimestamp, endChar >>
    /\ logBefore' = << console, file >>
    /\ \E before \in Befores :
          LET trimmedMessage == trimString(message, before)
          IN  IF trimmedMessage = ABORTED
              THEN alive' = FALSE /\ UNCHANGED << console, file >>
              ELSE /\ alive' = TRUE
                   /\ \E entry \in { Entry(trimmedMessage, showTimestamp, endChar) } :
                         /\ console' = IF outs[1] THEN console \o entry ELSE console
                         /\ file' = IF outs[2] THEN file \o entry ELSE file
    /\ UNCHANGED << cls, arcVars, camVars, flyVars, histVars, ndcVars, logType, outs,
                    now, trimText, trimCalled, trimResult, demoVars >>

NextLogger ==
    \E message \in Messages, showTimestamp \in BOOLEAN, endChar \in Ends :
        log(message, showTimestamp, endChar)

SpecLogger == InitLogger /\ [][NextLogger]_vars

\* Bound on the length of the strings passed to trimString.
MaxLen == 3

\* The characters of those strings: 'a', ' ' and '\n'.
Chars == { 97, 32, 10 }

RECURSIVE StringsOfLength(_)
StringsOfLength(n) ==
    IF n = 0 THEN { << >> }
    ELSE { Append(t, c) : t \in StringsOfLength(n - 1), c \in Chars }

Strings == UNION { StringsOfLength(n) : n \in 0 .. MaxLen }

InitTrim ==
    /\ cls = "trimString"
    /\ trimText \in Strings
    /\ trimCalled = FALSE
    /\ trimResult = << >>
    /\ logType = "none" /\ outs = <<FALSE, FALSE>> /\ console = <<>> /\ file = <<>>
    /\ now = <<>> /\ alive = TRUE /\ logs = 0 /\ lastLog = <<>> /\ logBefore = <<>>
    /\ NoArcball /\ NoCamera /\ NoFly /\ NoNDC /\ NoDemo /\ NoHistory
    /\ constructed = << >>

\* a call of trimString(text)
CallTrimString ==
    /\ cls = "trimString"
    /\ ~trimCalled
    /\ trimCalled' = TRUE
    /\ \E before \in Befores : trimResult' = trimString(trimText, before)
    /\ UNCHANGED << cls, arcVars, camVars, flyVars, histVars, ndcVars, logType, outs,
                    console, file, now, alive, logs, lastLog, logBefore, trimText,
                    demoVars >>

NextTrim == CallTrimString

SpecTrim == InitTrim /\ [][NextTrim]_vars

(***************************************************************************)
(* The program cube_camera_arcball (cube_camera_arcball.cpp): its camera   *)
(* and the callbacks the window system calls with pointer events.          *)
(***************************************************************************)
\* Cursor positions, in pixels of the 800 x 600 window, whose size the model
\* keeps: the centre and the middles of the top, bottom and right edges, which
\* screenToNDC maps to (0, 0), (0, -1), (0, 1) and (1, 0).
CursorPositions == { <<400, 300>>, <<400, 0>>, <<400, 600>>, <<800, 300>> }

\* Vertical scroll offsets, one notch being 10 so that offsetY / 10.0f is a
\* whole number of degrees.
ScrollOffsets == { -10, 10 }

\* GLFW_MOUSE_BUTTON_LEFT, GLFW_MOUSE_BUTTON_RIGHT
Buttons == {"LEFT", "RIGHT"}

\* GLFW_PRESS, GLFW_RELEASE
ButtonActions == {"PRESS", "RELEASE"}

\* The glm::vec2 that screenToNDC returns, in units of 1/3.
NDC(posX, posY, width, height) ==
    LET r == screenToNDC(<<posX, posY>>, width, height)
    IN  << (3 * r[1][1]) \div r[1][2], (3 * r[2][1]) \div r[2][2] >>

\* The globals after their initialisers have run: the camera at (0, 0, 7), the
\* window 800 x 600, firstMouse = true, lastY = windowHeight / 2.0f (pixels,
\* here in thirds like every value lastY takes later).
InitDemo ==
    /\ InitCameraArcball
    /\ position = <<0, 0, 105>>
    /\ program = "cube_camera_arcball"
    /\ windowWidth = 800
    /\ windowHeight = 600
    /\ firstMouse = TRUE
    /\ lastY = (windowHeight \div 2) * 3
    /\ cursor \in CursorPositions
    /\ held = {}
    /\ events = 0
    /\ lastEvent = <<"none", <<>> >>
    /\ prevMoveY = <<>>
    /\ dollied = FALSE

\* What an event records.
Delivered(name, args) ==
    /\ program = "cube_camera_arcball"
    /\ events < MaxEvents
    /\ events' = events + 1
    /\ lastEvent' = <<name, args>>
    /\ UNCHANGED <<program, windowWidth, windowHeight>>

\* no call is made on the camera
NoCall == UNCHANGED <<cls, arcVars, camVars, flyVars, histVars, ndcVars, logVars>>

\* mouseMovementCallback(GLFWwindow* window, double posX, double posY)
mouseMovementCallbackDollyFirst(posX, posY) ==
    /\ Delivered("move", <<posX, posY>>)
    /\ cursor' = <<posX, posY>>
    /\ UNCHANGED held
    /\ LET pos == NDC(posX, posY, windowWidth, windowHeight)
       IN  /\ prevMoveY' = pos[2]
           /\ IF isTranslating
              THEN LET last == IF firstMouse THEN pos[2] ELSE lastY
                       offsetY == last - pos[2]
                   IN  /\ firstMouse' = FALSE
                       /\ lastY' = pos[2]
                       /\ translate(offsetY)
                       /\ dollied' = TRUE
              ELSE IF isRotating
              THEN rotate(pos) /\ UNCHANGED <<firstMouse, lastY, dollied>>
              ELSE NoCall /\ UNCHANGED <<firstMouse, lastY, dollied>>

mouseMovementCallback(posX, posY) ==
    /\ Delivered("move", <<posX, posY>>)
    /\ cursor' = <<posX, posY>>
    /\ UNCHANGED held
    /\ LET pos == NDC(posX, posY, windowWidth, windowHeight)
       IN  /\ prevMoveY' = pos[2]
           /\ IF isRotating
              THEN rotate(pos) /\ UNCHANGED <<firstMouse, lastY, dollied>>
              ELSE IF isTranslating
              THEN LET last == IF firstMouse THEN pos[2] ELSE lastY
                       offsetY == last - pos[2]
                   IN  /\ firstMouse' = FALSE
                       /\ lastY' = pos[2]
                       /\ translate(offsetY)
                       /\ dollied' = TRUE
              ELSE NoCall /\ UNCHANGED <<firstMouse, lastY, dollied>>

\* mouseButtonCallback(GLFWwindow* window, int button, int action, int mods).
\* The window system reports a press of a button that is up and a release of
\* a button that is down.
mouseButtonCallback(button, action) ==
    /\ Delivered("button", <<button, action>>)
    /\ (action = "PRESS") = (button \notin held)
    /\ held' = IF action = "PRESS" THEN held \cup {button} ELSE held \ {button}
    /\ UNCHANGED <<cursor, lastY, prevMoveY>>
    /\ CASE button = "LEFT" /\ action = "PRESS" ->
              /\ beginRotation(NDC(cursor[1], cursor[2], windowWidth, windowHeight))
              /\ UNCHANGED <<firstMouse, dollied>>
         [] button = "LEFT" /\ action = "RELEASE" ->
              /\ endRotation
              /\ UNCHANGED <<firstMouse, dollied>>
         [] button = "RIGHT" /\ action = "PRESS" ->
              /\ beginTranslation
              /\ dollied' = FALSE
              /\ UNCHANGED firstMouse
         [] button = "RIGHT" /\ action = "RELEASE" ->
              /\ endTranslation
              /\ firstMouse' = TRUE
              /\ UNCHANGED dollied

\* mouseScrollCallback(GLFWwindow* window, double offsetX, double offsetY)
mouseScrollCallback(offsetX, offsetY) ==
    /\ Delivered("scroll", <<offsetX, offsetY>>)
    /\ adjustFOV(offsetY \div 10)
    /\ UNCHANGED <<firstMouse, lastY, cursor, held, prevMoveY, dollied>>

NextDemo ==
    \/ \E c \in CursorPositions : mouseMovementCallback(c[1], c[2])
    \/ \E offsetY \in ScrollOffsets : mouseScrollCallback(0, offsetY)
    \/ \E button \in Buttons, action \in ButtonActions :
           mouseButtonCallback(button, action)

SpecDemo == InitDemo /\ [][NextDemo]_vars

Init ==
    /\ InitArcball \/ InitCameraArcball \/ InitCameraVec \/ InitCameraFloats
    /\ NoDemo

Next ==
    \/ \E pos \in PositionsFor(radius) : beginRotation(pos) /\ Direct
    \/ \E pos \in PositionsFor(radius) : rotate(pos) /\ Direct
    \/ endRotation /\ Direct
    \/ beginTranslation /\ Direct
    \/ \E offset \in TranslateOffsets : translate(offset) /\ Direct
    \/ endTranslation /\ Direct
    \/ \E offset \in FOVOffsets : adjustFOV(offset) /\ Direct
    \/ \E direction \in Movement, deltaTime \in DeltaTimes :
           move(direction, deltaTime) /\ Direct
    \/ \E l \in LookInputs : look(l[1], l[2], l[3]) /\ Direct
    \/ reset /\ Direct

Spec == Init /\ [][Next]_vars

(***************************************************************************)
(* Properties                                                              *)
(***************************************************************************)

\* C1: endRotation composes the in-progress rotation with the accumulated one:
\* after the call lastRotation is (currentRotation before) * (lastRotation
\* before), currentRotation is the identity, and getRotationMatrix returns what
\* it returned before the call.
C1_EndRotationComposes ==
    (IsArcball /\ lastOp[1] = "endRotation") =>
        /\ lastRotation = QuatMul(beforeEnd[1], beforeEnd[2])
        /\ currentRotation = IDENTITY_QUATERNION
        /\ getRotationMatrix = RotationMatrixOf(beforeEnd[1], beforeEnd[2])

\* The rotations one drag can yield, for the radius and invertY of the object.
SingleRotations ==
    { computeRotationQuaternion(OrientY(s, invertY), OrientY(e, invertY), radius) :
        s \in PositionsFor(radius) \cup {<<0, 0>>}, e \in PositionsFor(radius) }

\* endRotation has composed two proper rotations into one that no single drag
\* yields.
C1_Witness ==
    /\ IsArcball
    /\ lastOp[1] = "endRotation"
    /\ beforeEnd[1] \notin {IDENTITY_QUATERNION, NAN_QUATERNION}
    /\ beforeEnd[2] \notin {IDENTITY_QUATERNION, NAN_QUATERNION}
    /\ lastRotation \notin SingleRotations \cup {IDENTITY_QUATERNION, NAN_QUATERNION}

\* C2: mapToSurface maps every pointer position onto the hemisphere of the
\* arcball radius: z >= 0 and x*x + y*y + z*z = radius*radius.  Stated of the two
\* positions the arcball holds and maps, start and end.
C2_MapsOntoHemisphere ==
    IsArcball =>
        \A p \in {start, end} :
            LET v == mapToSurface(p, radius)
            IN  v[3] >= 0 /\ Dot3(v, v) = radius * radius

\* C3: after beginRotation(s) and any calls whose last is rotate(p),
\* currentRotation is the rotation computed from s and p alone.
C3_RotationFromStartAndLatest ==
    (IsArcball /\ lastOp[1] = "rotate" /\ dragStart # <<>>) =>
        currentRotation =
            computeRotationQuaternion(OrientY(dragStart, invertY),
                                      OrientY(lastOp[2], invertY), radius)

\* A drag with two or more rotate calls that ends on a proper rotation.
C3_Witness ==
    /\ IsArcball
    /\ lastOp[1] = "rotate"
    /\ dragStart # <<>>
    /\ dragMoves = 2
    /\ currentRotation \notin {IDENTITY_QUATERNION, NAN_QUATERNION}

\* C4: the field of view of a CameraArcball and of a Camera stays within
\* [MIN_FOV, MAX_FOV] = [1, 45] after construction and after every call.
C4_FOVClamped ==
    cls \in {"CameraArcball", "Camera"} => (1 <= getFOV /\ getFOV <= 45)

\* adjustFOV(50) has taken the field of view below 1 and clamped it.
C4_Witness ==
    /\ cls = "CameraArcball"
    /\ lastOp = <<"adjustFOV", 50>>
    /\ getFOV = 1

\* C5: translate(offset) moves position by front * (-offset * 7) and changes
\* nothing else: front, right, up, target, fieldOfView, translating and the
\* arcball's rotation state stay as they were.
C5_TranslateDolliesOnly ==
    [][ lastOp'[1] = "translate" =>
          /\ position' = Add3(position, Scale3(front, (-lastOp'[2]) * 7))
          /\ UNCHANGED <<front, right, up, target, fieldOfView, translating, arcVars>>
      ]_vars

\* The default camera, at (0, 0, 1) with front (0, 0, 1), after translate(2/3):
\* it stands at 1 - 7 * 2/3 = -11/3, which is -55 in units of 1/15.
C5_Witness ==
    /\ cls = "CameraArcball"
    /\ lastOp = <<"translate", 2>>
    /\ position = <<0, 0, -55>>

\* C6: with invertY = true the y-coordinate passed to beginRotation and rotate
\* is negated before it is stored as start / end, and with invertY = false it
\* is stored unchanged.
C6_InvertYNegates ==
    /\ (IsArcball /\ lastOp[1] = "beginRotation") =>
           start = IF invertY THEN << lastOp[2][1], -lastOp[2][2] >> ELSE lastOp[2]
    /\ (IsArcball /\ lastOp[1] = "rotate") =>
           end = IF invertY THEN << lastOp[2][1], -lastOp[2][2] >> ELSE lastOp[2]

\* C7: isRotating() is false after construction and is true exactly when a
\* beginRotation has been called and no endRotation since; no other call
\* changes it.
C7_RotatingBetweenBeginAndEnd ==
    IsArcball => (isRotating <=> rotHist = "begin")

\* isRotating() is still true after a translate made during the rotation.
C7_Witness ==
    /\ cls = "CameraArcball"
    /\ rotHist = "begin"
    /\ lastOp[1] = "translate"
    /\ isRotating

C9_ScreenToNDC ==
    LET pos == ndcArgs[1]
        width == ndcArgs[2]
        height == ndcArgs[3]
        x == ndcResult[1]
        y == ndcResult[2]
    IN  ( /\ ndcResult # <<>>
          /\ 0 <= pos[1] /\ pos[1] <= width
          /\ 0 <= pos[2] /\ pos[2] <= height ) =>
            /\ x = RatSub(Rat(2 * pos[1], width), Rat(1, 1))
            /\ y = RatSub(Rat(2 * pos[2], height), Rat(1, 1))
            /\ RatLeq(Rat(-1, 1), x) /\ RatLeq(x, Rat(1, 1))
            /\ RatLeq(Rat(-1, 1), y) /\ RatLeq(y, Rat(1, 1))
            /\ (pos = <<0, 0>> => <<x, y>> = << Rat(-1, 1), Rat(-1, 1) >>)
            /\ (2 * pos[1] = width /\ 2 * pos[2] = height =>
                   <<x, y>> = << Rat(0, 1), Rat(0, 1) >>)
            /\ (pos = <<width, height>> => <<x, y>> = << Rat(1, 1), Rat(1, 1) >>)

\* The centre of a 4 x 2 window has been mapped to (0, 0).
C9_Witness ==
    /\ ndcArgs = << <<2, 1>>, 4, 2 >>
    /\ ndcResult = << <<0, 1>>, <<0, 1>> >>

\* C10: after reset(), position, pitch, yaw and field of view are what they
\* were right after construction, whichever constructor built the camera.
C10_ResetRestoresConstruction ==
    (cls = "Camera" /\ lastOp[1] = "reset") =>
        << position, pitch, yaw, fieldOfView >> = constructed

\* C11: after every look with constrainPitch = true the pitch lies within
\* [MIN_PITCH, MAX_PITCH] = [-89.99, 89.99] degrees, whatever it was before and
\* whatever the offsets are; the yaw is the yaw before plus offsetX times the
\* look sensitivity, never clamped.
C11_LookConstrainsPitch ==
    [][ (cls = "Camera" /\ lastOp'[1] = "look") =>
          /\ yaw' = yaw + lastOp'[2][1] * 10
          /\ lastOp'[2][3] => (-8999 <= pitch' /\ pitch' <= 8999)
      ]_vars

\* A camera built with pitch 0 and yaw -90 has looked up to pitch 180 without
\* the constraint and then looked up again with it: the pitch has come back to
\* MAX_PITCH, the yaw stands at -180.
C11_Witness ==
    /\ cls = "Camera"
    /\ steps = 2
    /\ constructed[2] = 0 /\ constructed[3] = -9000
    /\ lastOp = <<"look", <<0, 900, TRUE>> >>
    /\ pitch = MAX_PITCH
    /\ yaw = -18000

\* The longest prefix of text that does not end in a whitespace character.
LongestCleanPrefix(text) ==
    LET n == CHOOSE k \in 0 .. Len(text) :
                 /\ k = 0 \/ ~isspace(text[k])
                 /\ \A j \in (k + 1) .. Len(text) : isspace(text[j])
    IN  SubSeq(text, 1, n)

\* C12: every log call writes exactly one entry, to the console exactly when
\* the type is CONSOLE or CONSOLE_AND_FILE and to the file exactly when it is
\* FILE or CONSOLE_AND_FILE, the same entry to both; the entry is the message
\* without its trailing whitespace, then the end character, with "[timestamp] "
\* in front exactly when showTimestamp is true.
C12_LogWritesByOutputType ==
    (cls = "Logger" /\ lastLog # << >>) =>
        LET trimmed == LongestCleanPrefix(lastLog[1])
            prefix == IF lastLog[2]
                      THEN << 91 >> \o timestampToString(now) \o << 93, 32 >>
                      ELSE << >>
            entry == prefix \o trimmed \o << lastLog[3] >>
        IN  /\ console = IF logType \in {"CONSOLE", "CONSOLE_AND_FILE"}
                         THEN logBefore[1] \o entry ELSE logBefore[1]
            /\ file = IF logType \in {"FILE", "CONSOLE_AND_FILE"}
                      THEN logBefore[2] \o entry ELSE logBefore[2]

\* C13: trimString returns the longest prefix of its argument that does not
\* end in a whitespace character: the empty string for an empty or all-
\* whitespace argument, and the characters before the trailing run unchanged.
C13_TrimStringRemovesTrailingWhitespace ==
    (cls = "trimString" /\ trimCalled) => trimResult = LongestCleanPrefix(trimText)

\* C14: every rotation that rotate computes is well defined: the axis that
\* computeRotationQuaternion normalises, the cross product of the mapped drag
\* start and the mapped position, is never the zero vector, the rotation is
\* never NaN, and rotate(p) with p the drag start yields the identity.  Stated
\* of the rotate calls of a drag, after its beginRotation.
C14_RotationWellDefined ==
    (IsArcball /\ lastOp[1] = "rotate" /\ dragStart # << >>) =>
        /\ Cross3(mapToSurface(start, radius), mapToSurface(end, radius)) # ZERO3
        /\ currentRotation # NAN_QUATERNION
        /\ (lastOp[2] = dragStart => currentRotation = IDENTITY_QUATERNION)

\* C15: the pointer-move handler of the program dispatches by mode: it calls
\* camera.rotate only while isRotating() is true, camera.translate only while
\* isTranslating() is true and isRotating() is false, and a move while neither
\* button is held changes no camera state; with both buttons held it rotates
\* and does not translate.
C15_MoveDispatchesByMode ==
    [][ (lastEvent'[1] = "move" /\ events' = events + 1) =>
          LET called == steps' = steps + 1
          IN  /\ (called /\ lastOp'[1] = "rotate") => isRotating
              /\ (called /\ lastOp'[1] = "translate") => (isTranslating /\ ~isRotating)
              /\ called => lastOp'[1] \in {"rotate", "translate"}
              /\ held = {} => (~called /\ UNCHANGED <<arcVars, camVars>>)
              /\ held = {"LEFT", "RIGHT"} =>
                    (called /\ lastOp'[1] = "rotate" /\ UNCHANGED camVars)
      ]_vars

\* With both buttons held, a move away from the press position has rotated
\* the camera and has left it where it was constructed, at (0, 0, 7).
C15_Witness ==
    /\ program = "cube_camera_arcball"
    /\ held = {"LEFT", "RIGHT"}
    /\ lastEvent[1] = "move"
    /\ lastOp[1] = "rotate"
    /\ currentRotation \notin {IDENTITY_QUATERNION, NAN_QUATERNION}
    /\ position = <<0, 0, 105>>

\* C16: each offset the program passes to camera.translate is the NDC y of the
\* preceding pointer-move event minus the NDC y of this one, and zero for the
\* first translate since the right button went down, whatever presses,
\* releases and moves came between.
C16_TranslateOffsetIsLastDisplacement ==
    [][ (lastEvent'[1] = "move" /\ events' = events + 1
            /\ steps' = steps + 1 /\ lastOp'[1] = "translate") =>
          lastOp'[2] = IF dollied THEN prevMoveY - prevMoveY' ELSE 0
      ]_vars

====
